---- MODULE Spec2Model ----
(***************************************************************************)
(* Model of the ATS test-suite converters                                  *)
(*   docs/Test Resumes/ATS-Test-Suite/generate_docx.py  (text -> DOCX)     *)
(*   docs/Test Resumes/ATS-Test-Suite/generate_pdf.py   (DOCX -> PDF)      *)
(*                                                                         *)
(* A line of text is a sequence of characters; a character is a string     *)
(* naming it ("A", "a", "|", "BULLET" for U+2022, "EMDASH" for U+2014,     *)
(* "ENDASH" for U+2013, "Oacute"/"oacute" for the accented O of EDUCACION  *)
(* and ubicacion).                                                         *)
(*                                                                         *)
(* Spec      : one iteration of the per-line loops: a raw line at a        *)
(*             position goes through create_docx_from_text, the paragraph  *)
(*             it produced through create_pdf_from_docx, and the raw line  *)
(*             through the fallback create_simple_pdf_from_text.           *)
(* BatchSpec : the batch loops of the two main() functions with the        *)
(*             exception handling around each per-file conversion.         *)
(***************************************************************************)
EXTENDS Integers, Sequences, FiniteSets, TLC

VARIABLES
    pc,         \* position of the per-line pipeline
    line,       \* the raw line read from the text file (before strip)
    pos,        \* its index i in content.split('\n')
    para,       \* the DOCX paragraph create_docx_from_text wrote for it
    pdfStyle,   \* style create_pdf_from_docx chose for that paragraph
    pdfText,    \* text create_pdf_from_docx handed to reportlab for it
    fbStyle,    \* style the fallback create_simple_pdf_from_text chose
    fbText,     \* text the fallback handed to reportlab
    hdrArgs,    \* arguments generate_pdf.is_header has been called with
    script,     \* which script's main() runs in the batch model
    globbed,    \* what glob.glob returned (arbitrary order)
    files,      \* sorted(glob.glob(...))
    idx,        \* loop index into files (1-based)
    bpc,        \* position of the batch loop
    attempts,   \* conversions started, in order: <<file, method>>
    printed,    \* messages printed, in order: <<kind, file>>
    exitStatus, \* "running", "ok" (main returned), "exception" (escaped main)
    npc,        \* position of the file-name derivation
    nscript,    \* the script whose file names are derived
    inNames,    \* two file names the script's glob pattern matched
    outNames,   \* the output file names derived from them
    dpc,        \* position of the two runs of the per-line loop
    di,         \* index i of the next line of both runs
    lnA,        \* the line the first run read at the last index
    lnB,        \* the line the second run read at the last index
    locA,       \* the first run's loop locals (is_header, is_contact, ...)
    locB,       \* the second run's loop locals
    paraA,      \* the paragraph the first run wrote for lnA
    paraB,      \* the paragraph the second run wrote for lnB
    diverged    \* whether the two runs have read different lines so far

lineVars == <<pc, line, pos, para, pdfStyle, pdfText, fbStyle, fbText, hdrArgs>>

batchVars == <<script, globbed, files, idx, bpc, attempts, printed, exitStatus>>

nameVars == <<npc, nscript, inNames, outNames>>

pairVars == <<dpc, di, lnA, lnB, locA, locB, paraA, paraB, diverged>>

vars == <<pc, line, pos, para, pdfStyle, pdfText, fbStyle, fbText, hdrArgs,
          script, globbed, files, idx, bpc, attempts, printed, exitStatus,
          npc, nscript, inNames, outNames,
          dpc, di, lnA, lnB, locA, locB, paraA, paraB, diverged>>

(***************************************************************************)
(* Bounds of the model.                                                    *)
(***************************************************************************)
\* a raw line is at most MaxFrags fragments followed by an optional filler
MaxFrags == 2
\* positions 0 .. MaxPos of a line in its document
MaxPos == 3
\* at most MaxFiles files match the glob pattern
MaxFiles == 3
\* a file name has at most MaxNameFrags fragments between 'resume-' and
\* its extension
MaxNameFrags == 2

(***************************************************************************)
(* Program constants.                                                      *)
(***************************************************************************)
\* len(line) < 50 in is_header
HeaderMaxLen == 50
\* len(line) < 100 in the name/title test
TitleMaxLen == 100
\* i < 3 in is_contact
ContactMaxPos == 3
\* WD_ALIGN_PARAGRAPH.CENTER, compared as para.alignment == 1
AlignCenter == 1

(***************************************************************************)
(* Characters and Python's str methods.                                    *)
(***************************************************************************)
UpperLetters ==
    <<"A","B","C","D","E","F","G","H","I","J","K","L","M","N","O","P","Q",
      "R","S","T","U","V","W","X","Y","Z","Oacute">>

LowerLetters ==
    <<"a","b","c","d","e","f","g","h","i","j","k","l","m","n","o","p","q",
      "r","s","t","u","v","w","x","y","z","oacute">>

UpperSet == { UpperLetters[k] : k \in 1..Len(UpperLetters) }

LowerSet == { LowerLetters[k] : k \in 1..Len(LowerLetters) }

\* the lower-case letter of each upper-case letter
LowerOf ==
    [c \in UpperSet |->
        LowerLetters[CHOOSE k \in 1..Len(UpperLetters) : UpperLetters[k] = c]]

\* str.isupper() / str.islower() of one character
IsUpperChar(c) == c \in UpperSet

IsLowerChar(c) == c \in LowerSet

\* str.lower() of one character
LowerChar(c) == IF c \in UpperSet THEN LowerOf[c] ELSE c

\* str.isspace() of one character (the model's only whitespace is " ")
IsSpaceChar(c) == c = " "

\* str.lower()
Lower(s) == [k \in 1..Len(s) |-> LowerChar(s[k])]

\* str.isupper(): at least one cased character and no lower-case one
IsUpper(s) ==
    /\ \E k \in 1..Len(s) : IsUpperChar(s[k])
    /\ \A k \in 1..Len(s) : ~IsLowerChar(s[k])

\* str.startswith(p)
StartsWith(s, p) ==
    /\ Len(p) <= Len(s)
    /\ \A k \in 1..Len(p) : s[k] = p[k]

\* p in s
Contains(s, p) ==
    \E o \in 0..(Len(s) - Len(p)) : \A k \in 1..Len(p) : s[o + k] = p[k]

\* number of leading characters of s that are in set cs
LeadCount(s, cs) ==
    IF \A k \in 1..Len(s) : s[k] \in cs
    THEN Len(s)
    ELSE (CHOOSE k \in 1..Len(s) : s[k] \notin cs /\ \A j \in 1..(k-1) : s[j] \in cs) - 1

\* number of trailing characters of s that are in set cs
TrailCount(s, cs) ==
    IF \A k \in 1..Len(s) : s[k] \in cs
    THEN Len(s)
    ELSE Len(s) - (CHOOSE k \in 1..Len(s) : s[k] \notin cs /\ \A j \in (k+1)..Len(s) : s[j] \in cs)

\* str.lstrip(chars)
LStrip(s, cs) == SubSeq(s, LeadCount(s, cs) + 1, Len(s))

\* Strip with the call to strip() left out
Strip_Identity(s) == s

\* str.strip(): whitespace removed at both ends
Strip(s) ==
    IF \A k \in 1..Len(s) : IsSpaceChar(s[k])
    THEN << >>
    ELSE SubSeq(s, LeadCount(s, {" "}) + 1, Len(s) - TrailCount(s, {" "}))

\* len(s.split(sep)) for a one-character separator: one more than its count
SplitLen(s, sep) == Cardinality({k \in 1..Len(s) : s[k] = sep}) + 1

\* s.replace(a, b) for one-character a, b
Replace(s, a, b) == [k \in 1..Len(s) |-> IF s[k] = a THEN b ELSE s[k]]

(***************************************************************************)
(* generate_docx.py: the body of the per-line loop of                      *)
(* create_docx_from_text.                                                  *)
(***************************************************************************)
Pipe == <<"|">>

\* the startswith(...) alternatives of is_header
DocxSectionKeywords ==
    { <<"E","X","P","E","R","I","E","N","C","E">>,
      <<"E","D","U","C","A","T","I","O","N">>,
      <<"S","K","I","L","L","S">>,
      <<"E","X","P","E","R","I","E","N","C","I","A">>,
      <<"E","D","U","C","A","C","I","Oacute","N">>,
      <<"H","A","B","I","L","I","D","A","D","E","S">>,
      <<"W","O","R","K"," ","E","X","P","E","R","I","E","N","C","E">>,
      <<"C","A","R","E","E","R"," ","H","I","S","T","O","R","Y">>,
      <<"P","R","O","F","E","S","S","I","O","N","A","L"," ","S","U","M","M","A","R","Y">>,
      <<"T","E","C","H","N","I","C","A","L"," ","S","K","I","L","L","S">>,
      <<"C","E","R","T","I","F","I","C","A","T","I","O","N","S">>,
      <<"P","R","O","J","E","C","T","S">>,
      <<"P","U","B","L","I","C","A","T","I","O","N","S">>,
      <<"A","W","A","R","D","S">>,
      <<"L","A","N","G","U","A","G","E","S">> }

\* the markers tested against line.lower() in is_contact
ContactMarkersLower ==
    { <<"p","h","o","n","e">>,
      <<"t","e","l">>,
      <<"l","i","n","k","e","d","i","n">>,
      <<"l","o","c","a","t","i","o","n">>,
      <<"u","b","i","c","a","c","i","oacute","n">> }

\* IsBlankLine with the blank-line guard left out
IsBlankLine_Never(s) == FALSE

\* `if not line:` after line = line.strip()
IsBlankLine(s) == Len(s) = 0

\* line[0].isupper(); on an empty line Python raises IndexError instead,
\* which Line0Raises reports
Line0IsUpper(s) == IF Len(s) = 0 THEN FALSE ELSE IsUpperChar(s[1])

\* is_header = line.isupper() or (len(line) < 50 and line[0].isupper()
\*             and '|' not in line) or line.startswith(...) ...
DocxIsHeader(s) ==
    \/ IsUpper(s)
    \/ (Len(s) < HeaderMaxLen /\ Line0IsUpper(s) /\ ~Contains(s, Pipe))
    \/ \E kw \in DocxSectionKeywords : StartsWith(s, kw)

\* whether evaluating is_header reaches line[0] on an empty line
\* (short-circuit: only when line.isupper() is false and len(line) < 50)
Line0Raises(s) == ~IsUpper(s) /\ Len(s) < HeaderMaxLen /\ Len(s) = 0

\* DocxIsContact testing the markers against line instead of line.lower()
DocxIsContact_CaseSensitive(s, i) ==
    /\ i < ContactMaxPos
    /\ \/ Contains(s, <<"@">>)
       \/ \E m \in ContactMarkersLower : Contains(s, m)

\* is_contact
DocxIsContact(s, i) ==
    /\ i < ContactMaxPos
    /\ \/ Contains(s, <<"@">>)
       \/ \E m \in ContactMarkersLower : Contains(Lower(s), m)

\* is_job_title = '|' in line and len(line.split('|')) >= 2
DocxIsJobTitle(s) == Contains(s, Pipe) /\ SplitLen(s, "|") >= 2

\* DocxIsBullet with the '*' alternative left out
DocxIsBullet_NoStar(s) ==
    \/ StartsWith(s, <<"BULLET">>)
    \/ StartsWith(s, <<"-">>)

\* is_bullet
DocxIsBullet(s) ==
    \/ StartsWith(s, <<"BULLET">>)
    \/ StartsWith(s, <<"-">>)
    \/ StartsWith(s, <<"*">>)

\* i == 0 and len(line) < 100
DocxIsName(s, i) == i = 0 /\ Len(s) < TitleMaxLen

\* line.lstrip('•-* ')
BulletLStrip(s) == LStrip(s, {"BULLET", "-", "*", " "})

\* A paragraph of the document: runs counts its runs, text is the text of
\* its runs, bold/size those of its first run (size 0: not set),
\* alignment AlignCenter or 0 (not set), style the paragraph style.
Paragraph(runs, text, bold, alignment, size, style) ==
    [runs |-> runs, text |-> text, bold |-> bold, alignment |-> alignment,
     size |-> size, style |-> style]

\* the outcome of an iteration that raised instead of adding a paragraph
RaisedIndexError == Paragraph(0, << >>, FALSE, 0, 0, "IndexError")

\* DocxParagraph with the job-title branch tested before the header branch
DocxParagraph_JobTitleFirst(s, i) ==
    IF IsBlankLine(s) THEN Paragraph(0, << >>, FALSE, 0, 0, "Normal")
    ELSE IF Line0Raises(s) THEN RaisedIndexError
    ELSE IF DocxIsContact(s, i) \/ DocxIsName(s, i)
         THEN Paragraph(1, s, TRUE, AlignCenter, IF i = 0 THEN 14 ELSE 11, "Normal")
    ELSE IF DocxIsJobTitle(s) THEN Paragraph(1, s, TRUE, 0, 0, "Normal")
    ELSE IF DocxIsHeader(s) THEN Paragraph(1, s, TRUE, 0, 12, "Normal")
    ELSE IF DocxIsBullet(s) THEN Paragraph(1, BulletLStrip(s), FALSE, 0, 0, "List Bullet")
    ELSE Paragraph(1, s, FALSE, 0, 0, "Normal")

\* the paragraph one iteration of the loop adds for stripped line s at
\* index i: the if/elif chain on lines 35-38 and 74-102
DocxParagraph(s, i) ==
    IF IsBlankLine(s) THEN Paragraph(0, << >>, FALSE, 0, 0, "Normal")
    ELSE IF Line0Raises(s) THEN RaisedIndexError
    ELSE IF DocxIsContact(s, i) \/ DocxIsName(s, i)
         THEN Paragraph(1, s, TRUE, AlignCenter, IF i = 0 THEN 14 ELSE 11, "Normal")
    ELSE IF DocxIsHeader(s) THEN Paragraph(1, s, TRUE, 0, 12, "Normal")
    ELSE IF DocxIsJobTitle(s) THEN Paragraph(1, s, TRUE, 0, 0, "Normal")
    ELSE IF DocxIsBullet(s) THEN Paragraph(1, BulletLStrip(s), FALSE, 0, 0, "List Bullet")
    ELSE Paragraph(1, s, FALSE, 0, 0, "Normal")

\* The role a paragraph of the document is formatted as: the formatting
\* each branch of the chain applies (the comments on lines 36, 78, 84, 90,
\* 95, 100; the name line is the 14pt one, contact lines are 11pt).
DocxRole(p) ==
    IF p.style = "IndexError" THEN "IndexError"
    ELSE IF p.runs = 0 THEN "Blank"
    ELSE IF p.style = "List Bullet" THEN "Bullet"
    ELSE IF p.bold /\ p.alignment = AlignCenter /\ p.size = 14 THEN "Title"
    ELSE IF p.bold /\ p.alignment = AlignCenter THEN "Contact"
    ELSE IF p.bold /\ p.size = 12 THEN "SectionHeader"
    ELSE IF p.bold THEN "JobTitle"
    ELSE "Body"

Roles == {"Title", "Contact", "SectionHeader", "JobTitle", "Bullet", "Body", "Blank"}

(***************************************************************************)
(* generate_pdf.py: clean_text, is_header and the bodies of the per-       *)
(* paragraph loop of create_pdf_from_docx and of the per-line loop of      *)
(* create_simple_pdf_from_text.                                            *)
(***************************************************************************)
\* clean_text
clean_text(t) ==
    Replace(Replace(Replace(t, "BULLET", "-"), "EMDASH", "-"), "ENDASH", "-")

\* the startswith(...) alternatives of generate_pdf.is_header
PdfSectionKeywords ==
    { <<"E","X","P","E","R","I","E","N","C","E">>,
      <<"E","D","U","C","A","T","I","O","N">>,
      <<"S","K","I","L","L","S">>,
      <<"E","X","P","E","R","I","E","N","C","I","A">>,
      <<"E","D","U","C","A","C","I","Oacute","N">>,
      <<"H","A","B","I","L","I","D","A","D","E","S">>,
      <<"W","O","R","K"," ","E","X","P","E","R","I","E","N","C","E">>,
      <<"C","A","R","E","E","R"," ","H","I","S","T","O","R","Y">>,
      <<"P","R","O","F","E","S","S","I","O","N","A","L"," ","S","U","M","M","A","R","Y">>,
      <<"T","E","C","H","N","I","C","A","L"," ","S","K","I","L","L","S">>,
      <<"C","E","R","T","I","F","I","C","A","T","I","O","N","S">>,
      <<"P","R","O","J","E","C","T","S">>,
      <<"P","U","B","L","I","C","A","T","I","O","N","S">>,
      <<"A","W","A","R","D","S">>,
      <<"L","A","N","G","U","A","G","E","S">> }

\* is_header(line)
is_header(s) ==
    \/ IsUpper(s)
    \/ (Len(s) < HeaderMaxLen /\ Line0IsUpper(s) /\ ~Contains(s, Pipe))
    \/ \E kw \in PdfSectionKeywords : StartsWith(s, kw)

\* text = clean_text(para.text.strip())
PdfParaText(p) == clean_text(Strip(p.text))

\* is_bold = first_run.bold when the paragraph has runs, else False
PdfIsBold(p) == p.runs > 0 /\ p.bold

\* '@' in text or '|' in text or text[0].isupper()
PdfNameTest(t) ==
    Contains(t, <<"@">>) \/ Contains(t, Pipe) \/ Line0IsUpper(t)

\* The style create_pdf_from_docx gives paragraph p: "Spacer" (no
\* Paragraph), "header_style", "CustomBoldCenter" with TA_CENTER / 12pt or
\* with TA_LEFT / 10pt, the bullet branch (normal_style), and the regular
\* branch (bold_style or normal_style).
PdfParaStyle(p) ==
    LET t == PdfParaText(p) IN
    IF Len(t) = 0 THEN "Spacer"
    ELSE IF is_header(t) /\ ~PdfIsBold(p) THEN "header_style"
    ELSE IF PdfIsBold(p) /\ Len(t) < TitleMaxLen /\ PdfNameTest(t)
         THEN IF Contains(t, <<"@">>) \/ ~Contains(t, Pipe)
              THEN "CustomBoldCenter/center"
              ELSE "CustomBoldCenter/left"
    ELSE IF StartsWith(t, <<"-">>) \/ StartsWith(t, <<"*">>) THEN "bullet/normal_style"
    ELSE IF PdfIsBold(p) THEN "bold_style"
    ELSE "normal_style"

\* PdfHeaderCalls without the `if not text: ... continue` before the call
PdfHeaderCalls_Unguarded(p) == {PdfParaText(p)}

\* the arguments create_pdf_from_docx calls is_header with for paragraph p
PdfHeaderCalls(p) ==
    IF Len(PdfParaText(p)) = 0 THEN {} ELSE {PdfParaText(p)}

\* line = clean_text(line.strip()) in create_simple_pdf_from_text
FallbackText(raw) == clean_text(Strip(raw))

\* the style create_simple_pdf_from_text gives a raw line
FallbackStyle(raw) ==
    LET t == FallbackText(raw) IN
    IF Len(t) = 0 THEN "Spacer"
    ELSE IF is_header(t) THEN "Heading2"
    ELSE "Normal"

\* the arguments create_simple_pdf_from_text calls is_header with
FallbackHeaderCalls(raw) ==
    IF Len(FallbackText(raw)) = 0 THEN {} ELSE {FallbackText(raw)}

(***************************************************************************)
(* The lines the per-line pipeline is run on.                              *)
(***************************************************************************)
Frags ==
    { <<"A">>, <<"a">>, <<"|">>, <<"-">>, <<"*">>, <<"BULLET">>, <<"EMDASH">>,
      <<" ">>, <<"@">>, <<"T","e","l">>, <<"S","K","I","L","L","S">> }

RECURSIVE HeadsOf(_)
HeadsOf(n) ==
    IF n = 0 THEN { << >> }
    ELSE LET prev == HeadsOf(n - 1) IN prev \cup { h \o f : h \in prev, f \in Frags }

Filler(n) == [k \in 1..n |-> "x"]

\* fillers that bring a short head to either side of the two length tests
Fillers == { << >>, Filler(HeaderMaxLen - 2), Filler(TitleMaxLen - 2) }

RawLines == { h \o t : h \in HeadsOf(MaxFrags), t \in Fillers }

NoPara == Paragraph(0, << >>, FALSE, 0, 0, "none")

(***************************************************************************)
(* The per-line pipeline.                                                  *)
(***************************************************************************)
LineInit ==
    /\ pc = "read"
    /\ line \in RawLines
    /\ pos \in 0..MaxPos
    /\ para = NoPara
    /\ pdfStyle = "none"
    /\ pdfText = << >>
    /\ fbStyle = "none"
    /\ fbText = << >>
    /\ hdrArgs = {}

\* one iteration of `for i, line in enumerate(lines)` in
\* create_docx_from_text
DocxLine ==
    /\ pc = "read"
    /\ para' = DocxParagraph(Strip(line), pos)
    /\ pc' = "docx"
    /\ UNCHANGED <<line, pos, pdfStyle, pdfText, fbStyle, fbText, hdrArgs>>
    /\ UNCHANGED <<batchVars, nameVars, pairVars>>

\* one iteration of `for para in doc.paragraphs` in create_pdf_from_docx,
\* on the paragraph the DOCX path wrote
PdfPara ==
    /\ pc = "docx"
    /\ para.style # "IndexError"
    /\ pdfStyle' = PdfParaStyle(para)
    /\ pdfText' = PdfParaText(para)
    /\ hdrArgs' = hdrArgs \cup PdfHeaderCalls(para)
    /\ pc' = "pdf"
    /\ UNCHANGED <<line, pos, para, fbStyle, fbText>>
    /\ UNCHANGED <<batchVars, nameVars, pairVars>>

\* one iteration of `for line in lines` in create_simple_pdf_from_text,
\* on the same raw line of the text file
FallbackLine ==
    /\ pc = "pdf"
    /\ fbStyle' = FallbackStyle(line)
    /\ fbText' = FallbackText(line)
    /\ hdrArgs' = hdrArgs \cup FallbackHeaderCalls(line)
    /\ pc' = "fallback"
    /\ UNCHANGED <<line, pos, para, pdfStyle, pdfText>>
    /\ UNCHANGED <<batchVars, nameVars, pairVars>>

LineIdle ==
    /\ pc = "idle"
    /\ line = << >>
    /\ pos = 0
    /\ para = NoPara
    /\ pdfStyle = "none"
    /\ pdfText = << >>
    /\ fbStyle = "none"
    /\ fbText = << >>
    /\ hdrArgs = {}

(***************************************************************************)
(* The batch loops of generate_docx.main and generate_pdf.main.  A file    *)
(* name is a number; the order of the numbers is the order of the names.   *)
(* A conversion either completes or raises an Exception (a missing or      *)
(* malformed file, a failure of the document library).                     *)
(***************************************************************************)
FileNames == 1..MaxFiles

Range(q) == { q[k] : k \in 1..Len(q) }

\* what glob.glob can return: the matching names, each once, in any order
GlobResults ==
    { q \in UNION { [1..n -> FileNames] : n \in 0..MaxFiles } :
        \A j, k \in 1..Len(q) : j # k => q[j] # q[k] }

\* sorted(q) for distinct names
sorted(q) ==
    [k \in 1..Len(q) |->
        CHOOSE x \in Range(q) : Cardinality({ y \in Range(q) : y < x }) = k - 1]

\* the conversion main() calls for each file
PrimaryMethod(sc) ==
    IF sc = "generate_docx" THEN "create_docx_from_text" ELSE "create_pdf_from_docx"

BatchIdle ==
    /\ script = "none"
    /\ globbed = << >>
    /\ files = << >>
    /\ idx = 0
    /\ bpc = "idle"
    /\ attempts = << >>
    /\ printed = << >>
    /\ exitStatus = "idle"

BatchInit ==
    /\ script \in {"generate_docx", "generate_pdf"}
    /\ globbed \in GlobResults
    /\ files = << >>
    /\ idx = 0
    /\ bpc = "main"
    /\ attempts = << >>
    /\ printed = << >>
    /\ exitStatus = "running"

\* main(): files = sorted(glob.glob(...)); the `if not files` return;
\* the "Found ..." message
Discover ==
    /\ bpc = "main"
    /\ files' = sorted(globbed)
    /\ IF Len(globbed) = 0
       THEN /\ printed' = Append(printed, <<"no files found", 0>>)
            /\ bpc' = "exit"
            /\ exitStatus' = "ok"
            /\ idx' = idx
       ELSE /\ printed' = Append(printed, <<"found", Len(globbed)>>)
            /\ bpc' = "loop"
            /\ exitStatus' = exitStatus
            /\ idx' = 1
    /\ UNCHANGED <<script, globbed, attempts>>
    /\ UNCHANGED <<lineVars, nameVars, pairVars>>

\* the for loop takes the next file and calls the conversion inside try
BeginConvert ==
    /\ bpc = "loop"
    /\ idx <= Len(files)
    /\ attempts' = Append(attempts, <<files[idx], PrimaryMethod(script)>>)
    /\ bpc' = "convert"
    /\ UNCHANGED <<script, globbed, files, idx, printed, exitStatus>>
    /\ UNCHANGED <<lineVars, nameVars, pairVars>>

\* the conversion completes: "Created: ..." and the loop goes on
ConvertOk ==
    /\ bpc = "convert"
    /\ printed' = Append(printed, <<"created", files[idx]>>)
    /\ idx' = idx + 1
    /\ bpc' = "loop"
    /\ UNCHANGED <<script, globbed, files, attempts, exitStatus>>
    /\ UNCHANGED <<lineVars, nameVars, pairVars>>

\* DocxConvertRaises without the try/except of main: the exception ends main
DocxConvertRaises_Escapes ==
    /\ bpc = "convert"
    /\ script = "generate_docx"
    /\ bpc' = "exit"
    /\ exitStatus' = "exception"
    /\ UNCHANGED <<script, globbed, files, idx, attempts, printed>>
    /\ UNCHANGED <<lineVars, nameVars, pairVars>>

\* create_docx_from_text raises: it has no handler of its own, so the
\* `except Exception` of generate_docx.main prints and the loop goes on
DocxConvertRaises ==
    /\ bpc = "convert"
    /\ script = "generate_docx"
    /\ printed' = Append(printed, <<"error converting", files[idx]>>)
    /\ idx' = idx + 1
    /\ bpc' = "loop"
    /\ UNCHANGED <<script, globbed, files, attempts, exitStatus>>
    /\ UNCHANGED <<lineVars, nameVars, pairVars>>

\* the try block of create_pdf_from_docx raises: its own `except Exception`
\* prints and calls create_simple_pdf_from_text for the same pdf_file
PdfConvertRaises ==
    /\ bpc = "convert"
    /\ script = "generate_pdf"
    /\ printed' = Append(printed, <<"error converting", files[idx]>>)
    /\ attempts' = Append(attempts, <<files[idx], "create_simple_pdf_from_text">>)
    /\ bpc' = "fallback"
    /\ UNCHANGED <<script, globbed, files, idx, exitStatus>>
    /\ UNCHANGED <<lineVars, nameVars, pairVars>>

\* create_simple_pdf_from_text completes; create_pdf_from_docx returns None
FallbackOk ==
    /\ bpc = "fallback"
    /\ printed' = Append(printed, <<"created (from text)", files[idx]>>)
    /\ idx' = idx + 1
    /\ bpc' = "loop"
    /\ UNCHANGED <<script, globbed, files, attempts, exitStatus>>
    /\ UNCHANGED <<lineVars, nameVars, pairVars>>

\* FallbackRaises with a handler that tries the fallback once more
FallbackRaises_Retry ==
    /\ bpc = "fallback"
    /\ Len(attempts) < 2 * MaxFiles + 2
    /\ printed' = Append(printed, <<"fallback also failed", files[idx]>>)
    /\ attempts' = Append(attempts, <<files[idx], "create_simple_pdf_from_text">>)
    /\ UNCHANGED <<script, globbed, files, idx, bpc, exitStatus>>
    /\ UNCHANGED <<lineVars, nameVars, pairVars>>

\* create_simple_pdf_from_text raises: the inner `except Exception` prints;
\* create_pdf_from_docx returns None
FallbackRaises ==
    /\ bpc = "fallback"
    /\ printed' = Append(printed, <<"fallback also failed", files[idx]>>)
    /\ idx' = idx + 1
    /\ bpc' = "loop"
    /\ UNCHANGED <<script, globbed, files, attempts, exitStatus>>
    /\ UNCHANGED <<lineVars, nameVars, pairVars>>

\* the for loop is exhausted: main returns
Return ==
    /\ bpc = "loop"
    /\ idx > Len(files)
    /\ bpc' = "exit"
    /\ exitStatus' = "ok"
    /\ UNCHANGED <<script, globbed, files, idx, attempts, printed>>
    /\ UNCHANGED <<lineVars, nameVars, pairVars>>

(***************************************************************************)
(* The output file names: docx_file = text_file.replace('.txt', '.docx')   *)
(* in create_docx_from_text, pdf_file = docx_file.replace('.docx', '.pdf') *)
(* in create_pdf_from_docx.  A file name is a sequence of characters.      *)
(***************************************************************************)
ResumePrefix == <<"r","e","s","u","m","e","-">>

ExtTxt == <<".","t","x","t">>

ExtDocx == <<".","d","o","c","x">>

ExtPdf == <<".","p","d","f">>

\* str.replace(old, new): every occurrence, leftmost first, not overlapping
RECURSIVE ReplaceAll(_, _, _)
ReplaceAll(s, old, new) ==
    IF Len(s) < Len(old) THEN s
    ELSE IF StartsWith(s, old)
         THEN new \o ReplaceAll(SubSeq(s, Len(old) + 1, Len(s)), old, new)
         ELSE <<s[1]>> \o ReplaceAll(Tail(s), old, new)

\* the extension of the files a script's glob pattern selects
InputExt(sc) == IF sc = "generate_docx" THEN ExtTxt ELSE ExtDocx

\* the extension of the files a script writes
OutputExt(sc) == IF sc = "generate_docx" THEN ExtDocx ELSE ExtPdf

\* text_file.replace('.txt', '.docx') / docx_file.replace('.docx', '.pdf')
OutputName(sc, name) == ReplaceAll(name, InputExt(sc), OutputExt(sc))

\* what may stand for the * of 'resume-*.txt' / 'resume-*.docx'
NameFrags == { <<"a">>, <<"-">>, ExtTxt, ExtDocx, ExtPdf }

RECURSIVE MiddlesOf(_)
MiddlesOf(n) ==
    IF n = 0 THEN { << >> }
    ELSE LET prev == MiddlesOf(n - 1) IN prev \cup { h \o f : h \in prev, f \in NameFrags }

\* the names glob.glob('resume-*.txt') / glob.glob('resume-*.docx') can return
GlobNames(sc) == { ResumePrefix \o m \o InputExt(sc) : m \in MiddlesOf(MaxNameFrags) }

NameIdle ==
    /\ npc = "idle"
    /\ nscript = "none"
    /\ inNames = << >>
    /\ outNames = << >>

NameInit ==
    /\ npc = "names"
    /\ nscript \in {"generate_docx", "generate_pdf"}
    /\ inNames \in { <<a, b>> : a \in GlobNames(nscript), b \in GlobNames(nscript) }
    /\ outNames = << >>

\* the first statement of create_docx_from_text / create_pdf_from_docx,
\* for each of the two files
DeriveNames ==
    /\ npc = "names"
    /\ outNames' = [k \in 1..Len(inNames) |-> OutputName(nscript, inNames[k])]
    /\ npc' = "derived"
    /\ UNCHANGED <<nscript, inNames>>
    /\ UNCHANGED <<lineVars, batchVars, pairVars>>

(***************************************************************************)
(* Two runs of the per-line loop of create_docx_from_text side by side,    *)
(* each with its own loop locals.  The locals is_header, is_contact,       *)
(* is_job_title and is_bullet are assigned in an iteration only after the  *)
(* blank-line `continue`, so after a blank line they still hold what the   *)
(* last non-blank line left in them.                                       *)
(***************************************************************************)
\* the locals before the first assignment
NoLocals ==
    [bound |-> FALSE, is_header |-> FALSE, is_contact |-> FALSE,
     is_job_title |-> FALSE, is_bullet |-> FALSE]

\* DocxLocals with is_bullet carried over from the iteration before
DocxLocals_KeepBullet(s, i, prev) ==
    IF IsBlankLine(s) THEN prev
    ELSE [bound |-> TRUE,
          is_header |-> DocxIsHeader(s),
          is_contact |-> DocxIsContact(s, i),
          is_job_title |-> DocxIsJobTitle(s),
          is_bullet |-> prev.is_bullet \/ DocxIsBullet(s)]

\* the locals after the iteration on stripped line s at index i
DocxLocals(s, i, prev) ==
    IF IsBlankLine(s) THEN prev
    ELSE [bound |-> TRUE,
          is_header |-> DocxIsHeader(s),
          is_contact |-> DocxIsContact(s, i),
          is_job_title |-> DocxIsJobTitle(s),
          is_bullet |-> DocxIsBullet(s)]

\* the if/elif chain on lines 35-38 and 77-102, reading the locals
DocxParagraphOf(s, i, loc) ==
    IF IsBlankLine(s) THEN Paragraph(0, << >>, FALSE, 0, 0, "Normal")
    ELSE IF loc.is_contact \/ (i = 0 /\ Len(s) < TitleMaxLen)
         THEN Paragraph(1, s, TRUE, AlignCenter, IF i = 0 THEN 14 ELSE 11, "Normal")
    ELSE IF loc.is_header THEN Paragraph(1, s, TRUE, 0, 12, "Normal")
    ELSE IF loc.is_job_title THEN Paragraph(1, s, TRUE, 0, 0, "Normal")
    ELSE IF loc.is_bullet THEN Paragraph(1, BulletLStrip(s), FALSE, 0, 0, "List Bullet")
    ELSE Paragraph(1, s, FALSE, 0, 0, "Normal")

\* the lines the two runs read
PairLines ==
    { << >>, <<" ">>, <<"a">>, <<"A">>, <<"-", "a">>, <<"a", "|", "a">>,
      <<"@">>, <<"A", "|">>, <<" ", "*", "A", " ">> }

PairIdle ==
    /\ dpc = "idle"
    /\ di = 0
    /\ lnA = << >>
    /\ lnB = << >>
    /\ locA = NoLocals
    /\ locB = NoLocals
    /\ paraA = NoPara
    /\ paraB = NoPara
    /\ diverged = FALSE

PairInit ==
    /\ dpc = "loop"
    /\ di = 0
    /\ lnA = << >>
    /\ lnB = << >>
    /\ locA = NoLocals
    /\ locB = NoLocals
    /\ paraA = NoPara
    /\ paraB = NoPara
    /\ diverged = FALSE

\* iteration di of `for i, line in enumerate(lines)` in both runs
PairStep ==
    /\ dpc = "loop"
    /\ di <= MaxPos
    /\ \E a \in PairLines, b \in PairLines :
          /\ lnA' = a
          /\ lnB' = b
          /\ locA' = DocxLocals(Strip(a), di, locA)
          /\ locB' = DocxLocals(Strip(b), di, locB)
          /\ paraA' = DocxParagraphOf(Strip(a), di, DocxLocals(Strip(a), di, locA))
          /\ paraB' = DocxParagraphOf(Strip(b), di, DocxLocals(Strip(b), di, locB))
          /\ diverged' = (diverged \/ a # b)
    /\ di' = di + 1
    /\ UNCHANGED dpc
    /\ UNCHANGED <<lineVars, batchVars, nameVars>>

(***************************************************************************)
(* Specifications.                                                         *)
(***************************************************************************)
Init == LineInit /\ BatchIdle /\ NameIdle /\ PairIdle

Next == DocxLine \/ PdfPara \/ FallbackLine

Spec == Init /\ [][Next]_vars

BatchStart == BatchInit /\ LineIdle /\ NameIdle /\ PairIdle

BatchNext ==
    \/ Discover
    \/ BeginConvert
    \/ ConvertOk
    \/ DocxConvertRaises
    \/ PdfConvertRaises
    \/ FallbackOk
    \/ FallbackRaises
    \/ Return

\* a script is one sequential process: it keeps running until main returns
BatchSpec == BatchStart /\ [][BatchNext]_vars /\ WF_vars(BatchNext)

NameStart == NameInit /\ LineIdle /\ BatchIdle /\ PairIdle

NameNext == DeriveNames

NameSpec == NameStart /\ [][NameNext]_vars

PairStart == PairInit /\ LineIdle /\ BatchIdle /\ NameIdle

PairNext == PairStep

PairSpec == PairStart /\ [][PairNext]_vars

(***************************************************************************)
(* Properties.                                                             *)
(***************************************************************************)
\* the line as the classification sees it, and the role it was given
stripped == Strip(line)

role == DocxRole(para)

classified == pc \in {"docx", "pdf", "fallback"}

BulletGlyphs == {"BULLET", "-", "*"}

StartsWithGlyph(t) == Len(t) > 0 /\ t[1] \in BulletGlyphs

\* C1: whatever the line (empty, whitespace only, punctuation only) and
\* the position, the iteration of create_docx_from_text ends without
\* raising and has selected one of the seven roles.
C1_ClassifyTotal ==
    classified => (para.style # "IndexError" /\ role \in Roles)

\* C1 witness: a whitespace-only line and a punctuation-only line are
\* both classified
C1_Witness ==
    /\ pc = "docx"
    /\ role \in Roles
    /\ \/ (Len(line) > 0 /\ \A k \in 1..Len(line) : line[k] = " ")
       \/ line = <<"|", "-">>

\* C2: a non-blank line that is not Title or Contact and that is all
\* upper-case, or shorter than 50 with an upper-case first character and
\* no '|', or starts with a section keyword, is SectionHeader, also when
\* it contains '|' or starts with a bullet glyph.
C2_HeaderBeforeJobTitleAndBullet ==
    (/\ classified
     /\ role \notin {"Blank", "Title", "Contact"}
     /\ \/ IsUpper(stripped)
        \/ /\ Len(stripped) < 50
           /\ Len(stripped) > 0
           /\ IsUpperChar(stripped[1])
           /\ \A k \in 1..Len(stripped) : stripped[k] # "|"
        \/ \E kw \in DocxSectionKeywords : StartsWith(stripped, kw))
    => role = "SectionHeader"

\* C2 witness: an all-upper-case line with a '|' at a position past the
\* contact lines is SectionHeader, and so is one starting with a glyph
C2_Witness ==
    /\ pc = "docx"
    /\ pos >= 3
    /\ role = "SectionHeader"
    /\ IsUpper(stripped)
    /\ \/ Contains(stripped, Pipe)
       \/ StartsWithGlyph(stripped)

\* the number of non-empty segments of t.split('|')
NonEmptySegments(t) ==
    Cardinality({ k \in 1..Len(t) : t[k] # "|" /\ (k = 1 \/ t[k-1] = "|") })

\* C3: a line not matched by rules 1-4 is JobTitle if and only if it
\* contains '|' and splitting it on '|' yields at least 2 non-empty
\* segments.
C3_JobTitleIffTwoNonEmptySegments ==
    (classified /\ role \notin {"Blank", "Title", "Contact", "SectionHeader"})
    => (role = "JobTitle"
        <=> (Contains(stripped, Pipe) /\ NonEmptySegments(stripped) >= 2))

\* The roles whose formatting a style of create_pdf_from_docx stands for
\* (the comments on its branches: section header, name or job title,
\* bullet point, regular text).
PdfRoles(style) ==
    CASE style = "Spacer" -> {"Blank"}
      [] style = "header_style" -> {"SectionHeader"}
      [] style = "CustomBoldCenter/center" -> {"Title", "Contact"}
      [] style = "CustomBoldCenter/left" -> {"JobTitle"}
      [] style = "bullet/normal_style" -> {"Bullet"}
      [] OTHER -> {"Body"}

\* C4: the role under which the text->DOCX path formats a line is the role
\* under which the DOCX->PDF path formats the paragraph written for it.
C4_SameRoleInBothPaths ==
    pc \in {"pdf", "fallback"} => role \in PdfRoles(pdfStyle)

\* C7: a line is Blank if and only if it has no non-whitespace character,
\* at every position including 0, and every other line has one of the six
\* non-Blank roles.
C7_BlankIffNoText ==
    classified =>
        /\ role = "Blank" <=> (\A k \in 1..Len(line) : line[k] = " ")
        /\ role # "Blank" => role \in (Roles \ {"Blank"})

\* C7 witness: a whitespace-only line at position 0 is Blank, not Title
C7_Witness ==
    /\ pc = "docx"
    /\ pos = 0
    /\ Len(line) > 0
    /\ \A k \in 1..Len(line) : line[k] = " "
    /\ role = "Blank"

\* C8: every non-empty line at position 0 shorter than 100 is Title, no
\* line at another position is Title, and a line at position 0 of length
\* 100 or more is not Title.
C8_TitleIffFirstAndShort ==
    (classified /\ Len(stripped) > 0)
    => (role = "Title" <=> (pos = 0 /\ Len(stripped) < 100))

\* whether t contains one of the contact markers, case-insensitively
HasContactMarker(t) ==
    \/ \E k \in 1..Len(t) : t[k] = "@"
    \/ \E m \in { <<"p","h","o","n","e">>, <<"t","e","l">>,
                  <<"l","i","n","k","e","d","i","n">>,
                  <<"l","o","c","a","t","i","o","n">>,
                  <<"u","b","i","c","a","c","i","oacute","n">> } :
          Contains(Lower(t), m)

\* C9: a non-blank line that is not Title is Contact if and only if its
\* position is below 3 and it contains a contact marker; so the Contact
\* rule wins over the SectionHeader rule, and no line at position 3 or
\* more is Contact.
C9_ContactIffEarlyMarker ==
    /\ (classified /\ role \notin {"Blank", "Title"})
       => (role = "Contact" <=> (pos < 3 /\ HasContactMarker(stripped)))
    /\ (classified /\ pos >= 3) => role # "Contact"

\* C9 witness: an all-upper-case line with a marker in mixed case at
\* position 1 or 2 is Contact
C9_Witness ==
    /\ pc = "docx"
    /\ pos \in {1, 2}
    /\ role = "Contact"
    /\ Contains(stripped, <<"T","e","l">>)
    /\ DocxIsHeader(stripped)

\* C10: for a line classified Bullet, the text each rendering adapter
\* writes is the line without its leading bullet glyph and starts with no
\* bullet glyph.
C10_BulletGlyphNotRendered ==
    (classified /\ role = "Bullet")
    => /\ para.text = LStrip(stripped, BulletGlyphs \cup {" "})
       /\ ~StartsWithGlyph(para.text)
       /\ pc \in {"pdf", "fallback"} => ~StartsWithGlyph(pdfText)

\* the files main() passed to its conversion function, in order
PrimaryAttempts ==
    LET prim == SelectSeq(attempts, LAMBDA a : a[2] = PrimaryMethod(script))
    IN  [k \in 1..Len(prim) |-> prim[k][1]]

\* C5 as stated: the output of a file is attempted at most once per run
C5_OutputAttemptedOnce ==
    \A j, k \in 1..Len(attempts) : j # k => attempts[j][1] # attempts[k][1]

\* C5 as amended: no conversion function is called twice for a file;
\* generate_docx attempts each file once; in generate_pdf the only second
\* attempt is the one fallback, made right after the failure of
\* create_pdf_from_docx on that file was printed; every attempt that ended
\* has printed its outcome.
C5_OneAttemptPerMethod ==
    /\ \A j, k \in 1..Len(attempts) : j # k => attempts[j] # attempts[k]
    /\ \A k \in 1..Len(attempts) :
          attempts[k][2] = "create_simple_pdf_from_text"
          => /\ script = "generate_pdf"
             /\ k > 1
             /\ attempts[k-1] = <<attempts[k][1], "create_pdf_from_docx">>
             /\ \E n \in 1..Len(printed) :
                   printed[n] = <<"error converting", attempts[k][1]>>
    /\ bpc \in {"loop", "exit"} => Len(printed) = Len(attempts) + 1

\* C5 witness: generate_pdf ended after a file's conversion and its
\* fallback both failed, and a later file was still attempted
C5_Witness ==
    /\ bpc = "exit"
    /\ script = "generate_pdf"
    /\ Len(files) >= 2
    /\ \E n \in 1..Len(printed) : printed[n] = <<"fallback also failed", files[1]>>
    /\ Len(PrimaryAttempts) = Len(files)

\* what holds of the batch loop in every state
C6_Safety ==
    /\ exitStatus # "exception"
    /\ bpc = "exit" =>
          /\ exitStatus = "ok"
          /\ PrimaryAttempts = files
          /\ Range(files) = Range(globbed)
          /\ \A j, k \in 1..Len(files) : j < k => files[j] < files[k]
          /\ Len(globbed) = 0 =>
                (attempts = << >> /\ printed = << <<"no files found", 0>> >>)

\* C6: main attempts every discovered file exactly once in sorted order
\* whatever conversions fail, no exception escapes main, and the run
\* ends; with no matching file only the message is printed.
C6_BatchAttemptsAllAndEnds == [](C6_Safety) /\ <>(bpc = "exit")

\* C6 witness: a run whose glob result was not sorted ended after the
\* conversion of its first file failed and the later files were attempted
C6_Witness ==
    /\ bpc = "exit"
    /\ Len(files) >= 2
    /\ globbed # files
    /\ \E n \in 1..Len(printed) : printed[n] = <<"error converting", files[1]>>
    /\ PrimaryAttempts = files

\* C13: a line not matched by rules 1-5 is Bullet if and only if it starts
\* with a bullet glyph, and Body otherwise; so at a position of 3 or more
\* a line starting with a glyph is Bullet exactly when it contains no '|'
\* and is not all upper-case.
C13_BulletIffGlyph ==
    /\ (classified
        /\ role \notin {"Blank", "Title", "Contact", "SectionHeader", "JobTitle"})
       => /\ role = "Bullet" <=> StartsWithGlyph(stripped)
          /\ role = "Body" <=> ~StartsWithGlyph(stripped)
    /\ (classified /\ pos >= 3 /\ StartsWithGlyph(stripped))
       => (role = "Bullet"
           <=> /\ \A k \in 1..Len(stripped) : stripped[k] # "|"
               /\ ~IsUpper(stripped))

\* C13 witness: at position 3, a line starting with '*' is Bullet and one
\* starting with '*' that contains '|' is not
C13_Witness ==
    /\ pc = "docx"
    /\ pos >= 3
    /\ \/ (stripped = <<"*", "a">> /\ role = "Bullet")
       \/ (stripped = <<"*", "|">> /\ role = "JobTitle")

\* C14: generate_pdf.is_header is never called with an empty string: on
\* both call paths the emptiness test precedes the call, and clean_text
\* keeps the length of its argument.
C14_HeaderNeverCalledOnEmpty ==
    /\ \A t \in hdrArgs : Len(t) > 0
    /\ pc \in {"pdf", "fallback"} =>
          /\ Len(pdfText) = Len(Strip(para.text))
          /\ Len(pdfText) > 0 <=> pdfText \in hdrArgs
    /\ pc = "fallback" =>
          /\ Len(fbText) = Len(stripped)
          /\ Len(fbText) > 0 <=> fbText \in hdrArgs

\* C14 witness: both paths have called is_header, the fallback on a text
\* clean_text changed, for a line whose paragraph text differs from it
C14_Witness ==
    /\ pc = "fallback"
    /\ fbText # stripped
    /\ fbText \in hdrArgs
    /\ pdfText \in hdrArgs
    /\ pdfText # fbText

\* C11: the role of a line is a function of its text and position only:
\* two runs give a line read at the same index the same role whatever
\* either run read before, a run gives it the role the line has when
\* classified on its own, and two runs over the same lines give the same
\* roles.
C11_RoleOfLineAndPositionOnly ==
    di > 0 =>
        /\ lnA = lnB => DocxRole(paraA) = DocxRole(paraB)
        /\ ~diverged => paraA = paraB
        /\ DocxRole(paraA) = DocxRole(DocxParagraph(Strip(lnA), di - 1))
        /\ DocxRole(paraB) = DocxRole(DocxParagraph(Strip(lnB), di - 1))

\* C11 witness: after reading different lines, the two runs read the same
\* line at the same index, with different locals left over in one case
C11_Witness ==
    /\ di >= 2
    /\ diverged
    /\ lnA = lnB
    /\ \/ DocxRole(paraA) = "Body"
       \/ (DocxRole(paraA) = "Blank" /\ locA # locB)

\* the name without its last n characters
DropLast(name, n) == SubSeq(name, 1, Len(name) - n)

\* C12: the output name is the input name with only its extension
\* replaced, and different input names give different output names.
C12_OnlyExtensionReplaced ==
    npc = "derived" =>
        /\ \A k \in 1..Len(inNames) :
              outNames[k] =
                  DropLast(inNames[k], Len(InputExt(nscript))) \o OutputExt(nscript)
        /\ inNames[1] # inNames[2] => outNames[1] # outNames[2]

====
